---- MODULE Spec2Model ----
(***************************************************************************)
(* Verification model of the layer building blocks of neural_sp:           *)
(*   neural_sp/models/modules/transformer.py                               *)
(*       PositionalEncoding, PositionwiseFeedForward,                      *)
(*       TransformerEncoderBlock, TransformerDecoderBlock                  *)
(*   neural_sp/models/seq2seq/decoders/attention.py                        *)
(*       AttentionMechanism                                                *)
(*                                                                         *)
(* Tensors are modelled by what the properties need of them:               *)
(*   - masks and attention weights element by element,                     *)
(*   - shapes as sequences of integers, with the tensor library's shape    *)
(*     rules (broadcasting, expand, cat, matmul, squeeze, view, conv2d),   *)
(*   - the data flow through the learned sublayers as postfix expressions  *)
(*     (sequences of operator names), which keep the order of composition. *)
(* Python's None is the string "None" in a string field, <<>> in a tensor  *)
(* field.                                                                  *)
(***************************************************************************)
EXTENDS Integers, Sequences, FiniteSets, TLC

VARIABLES
    block,   \* the transformer block instance under study
    ret,     \* what the caller holds of the last block call (return or raise)
    att,     \* the AttentionMechanism instance
    attRet,  \* what the caller holds of the last AttentionMechanism call
    pe,      \* the PositionalEncoding instance
    peRet    \* what the caller holds of the last PositionalEncoding call

vars == <<block, ret, att, attRet, pe, peRet>>

(***************************************************************************)
(* Bounds of the model.                                                    *)
(***************************************************************************)
MaxBatch == 2
MaxLen == 2
MaxHeads == 2

(***************************************************************************)
(* Postfix expressions: the data flow through named sublayers.             *)
(***************************************************************************)
Var(name) == <<name>>

\* y = module(x) for a one-input module (LayerNorm, Dropout).
Apply(name, x) == x \o <<name>>

\* a + b
Add(a, b) == a \o b \o <<"+">>

NoTensor == <<>>
NoneValue == <<"None">>

(***************************************************************************)
(* Shapes and the tensor library's shape rules.  Bad is the shape of a     *)
(* call that raises RuntimeError (size mismatch).                          *)
(***************************************************************************)
Bad == <<-1>>

Min(a, b) == IF a <= b THEN a ELSE b

OkShape(s) == \A i \in 1..Len(s) : s[i] >= 0

\* one dimension of a broadcast
BroadcastDim(a, b) ==
    IF a = b THEN a ELSE IF a = 1 THEN b ELSE IF b = 1 THEN a ELSE -1

\* a + b, a * b on tensors of one rank
Broadcast(s1, s2) ==
    IF ~OkShape(s1) \/ ~OkShape(s2) \/ Len(s1) # Len(s2) THEN Bad
    ELSE LET r == [i \in 1..Len(s1) |-> BroadcastDim(s1[i], s2[i])]
         IN  IF OkShape(r) THEN r ELSE Bad

\* x.expand(target), x.expand_as(t): a dimension is kept or grown from 1
Expand(s, target) ==
    IF ~OkShape(s) \/ ~OkShape(target) \/ Len(s) # Len(target) THEN Bad
    ELSE IF \A i \in 1..Len(s) : s[i] = target[i] \/ s[i] = 1 THEN target ELSE Bad

\* torch.cat([a, b], dim): every other dimension must agree, none is broadcast
Cat(s1, s2, dim) ==
    IF ~OkShape(s1) \/ ~OkShape(s2) \/ Len(s1) # Len(s2) THEN Bad
    ELSE IF \A i \in 1..Len(s1) : i = dim \/ s1[i] = s2[i]
         THEN [s1 EXCEPT ![dim] = s1[dim] + s2[dim]]
         ELSE Bad

\* nn.Linear / LinearND on the last dimension
Linear(s, in, out) ==
    IF ~OkShape(s) \/ Len(s) = 0 THEN Bad
    ELSE IF s[Len(s)] = in THEN [s EXCEPT ![Len(s)] = out] ELSE Bad

\* x.squeeze(dim): removes the dimension when its size is 1, else leaves x alone
Squeeze(s, dim) ==
    IF ~OkShape(s) \/ dim > Len(s) THEN Bad
    ELSE IF s[dim] = 1 THEN [i \in 1..(Len(s) - 1) |-> IF i < dim THEN s[i] ELSE s[i + 1]]
         ELSE s

\* x.unsqueeze(1) of a matrix
Unsqueeze1(s) == IF OkShape(s) /\ Len(s) = 2 THEN <<s[1], 1, s[2]>> ELSE Bad

\* x.transpose(-2, -1), x.transpose(1, 2) of a 3-D tensor
TransposeLast(s) == IF OkShape(s) /\ Len(s) = 3 THEN <<s[1], s[3], s[2]>> ELSE Bad

RECURSIVE Numel(_)
Numel(s) == IF Len(s) = 0 THEN 1 ELSE s[1] * Numel(Tail(s))

\* x.view(target)
View(s, target) ==
    IF OkShape(s) /\ Numel(s) = Numel(target) THEN target ELSE Bad

\* torch.matmul of two 3-D tensors: batched, the batch dimension broadcast
MatMul(s1, s2) ==
    IF ~OkShape(s1) \/ ~OkShape(s2) \/ Len(s1) # 3 \/ Len(s2) # 3 THEN Bad
    ELSE IF s1[3] # s2[2] \/ BroadcastDim(s1[1], s2[1]) < 0 THEN Bad
         ELSE <<BroadcastDim(s1[1], s2[1]), s1[2], s2[3]>>

\* nn.Conv2d(in_ch, out_ch, kernel_size=(kh, kw), stride=1, padding=(ph, pw)) on
\* an input [N, C, H, W]
Conv2d(s, in_ch, out_ch, kh, kw, ph, pw) ==
    IF ~OkShape(s) \/ Len(s) # 4 THEN Bad
    ELSE IF s[2] # in_ch \/ s[3] + 2 * ph < kh \/ s[4] + 2 * pw < kw THEN Bad
         ELSE <<s[1], out_ch, s[3] + 2 * ph - kh + 1, s[4] + 2 * pw - kw + 1>>

\* x[:, :n]
SliceTime(s, n) == IF OkShape(s) THEN [s EXCEPT ![2] = Min(s[2], n)] ELSE Bad

(***************************************************************************)
(* neural_sp.models.torch_utils.make_pad_mask: mask[b][t] = 1 iff          *)
(* t < lens[b].  Its code is not part of the sources at hand.              *)
(***************************************************************************)
MakePadMask(lens, tmax) ==
    [b \in DOMAIN lens |-> [t \in 0..(tmax - 1) |-> IF t < lens[b] THEN 1 ELSE 0]]

(***************************************************************************)
(* neural_sp.models.modules.multihead_attention.MultiheadAttentionMechanism*)
(* as seen from its call sites: module(key, value, query, mask) returns    *)
(* the pair (output, attention weights).                                   *)
(***************************************************************************)
MultiheadAttention(name, key, value, query) ==
    [out |-> key \o value \o query \o <<name>>,
     aw  |-> key \o value \o query \o <<name, "aw">>]

(***************************************************************************)
(* PositionwiseFeedForward.forward: w_2(dropout(relu(w_1(xs))))            *)
(***************************************************************************)
PositionwiseFeedForward(xs) ==
    Apply("w_2", Apply("ffn.dropout", Apply("relu", Apply("w_1", xs))))

(***************************************************************************)
(* Mask arithmetic of the blocks.                                          *)
(***************************************************************************)
\* mask.unsqueeze(1).expand(bs, rows, cols): every row i repeats the key mask
ExpandRows(pad, rows, cols) ==
    [b \in DOMAIN pad |-> [i \in 0..(rows - 1) |-> [j \in 0..(cols - 1) |-> pad[b][j]]]]

\* mask.unsqueeze(2).expand(bs, rows, cols): every column j repeats the query mask
ExpandCols(pad, rows, cols) ==
    [b \in DOMAIN pad |-> [i \in 0..(rows - 1) |-> [j \in 0..(cols - 1) |-> pad[b][i]]]]

\* mask.unsqueeze(1).expand(bs, n_heads, rows, cols)
ExpandHeads(m, n_heads) ==
    [b \in DOMAIN m |-> [h \in 1..n_heads |-> m[b]]]

\* torch.tril(ones(n, n), diagonal=0): keeps the entries with column <= row
TrilStrict(n) ==
    [i \in 0..(n - 1) |-> [j \in 0..(n - 1) |-> IF j < i THEN 1 ELSE 0]]

Tril(n) ==
    [i \in 0..(n - 1) |-> [j \in 0..(n - 1) |-> IF j <= i THEN 1 ELSE 0]]

\* subsequent_mask.unsqueeze(0).unsqueeze(1).expand(bs, n_heads, n, n)
ExpandBatchHeads(m, bs, n_heads) ==
    [b \in 1..bs |-> [h \in 1..n_heads |-> m]]

\* elementwise a & b (also a * b) of two 0/1 tensors of one shape
MaskAnd(a, b) ==
    [x \in DOMAIN a |-> [y \in DOMAIN a[x] |-> [i \in DOMAIN a[x][y] |->
        [j \in DOMAIN a[x][y][i] |-> IF a[x][y][i][j] = 1 /\ b[x][y][i][j] = 1 THEN 1 ELSE 0]]]]

MaskAnd3(a, b) ==
    [x \in DOMAIN a |-> [i \in DOMAIN a[x] |->
        [j \in DOMAIN a[x][i] |-> IF a[x][i][j] = 1 /\ b[x][i][j] = 1 THEN 1 ELSE 0]]]

\* TransformerEncoderBlock.forward, "Create the self-attention mask"
EncSelfMask(xlens, bs, xmax, n_heads) ==
    ExpandHeads(ExpandRows(MakePadMask(xlens, xmax), xmax, xmax), n_heads)

\* TransformerDecoderBlock.forward, "Create the self-attention mask"
DecSelfMask(ylens, bs, ymax, n_heads) ==
    LET yy_mask == ExpandHeads(ExpandRows(MakePadMask(ylens, ymax), ymax, ymax), n_heads)
        subsequent_mask == ExpandBatchHeads(Tril(ymax), bs, n_heads)
    IN  MaskAnd(yy_mask, subsequent_mask)

\* TransformerDecoderBlock.forward, "Create the source-target mask"
DecSrcMask(xlens, ylens, bs, ymax, xmax, n_heads) ==
    LET x_mask == ExpandRows(MakePadMask(xlens, xmax), ymax, xmax)
        y_mask == ExpandCols(MakePadMask(ylens, ymax), ymax, xmax)
    IN  ExpandHeads(MaskAnd3(x_mask, y_mask), n_heads)

(***************************************************************************)
(* The sublayers of the blocks, each with its residual connection.         *)
(***************************************************************************)
\* _xs = norm1(xs); _xs, aw = self_attn(_xs, _xs, _xs); xs = dropout1(_xs) + xs
SelfAttnSublayerPostNorm(xs) ==
    LET _xs == Apply("norm1", xs)
        a   == MultiheadAttention("self_attn", _xs, _xs, _xs)
    IN  [out |-> Add(Apply("dropout1", a.out), _xs), aw |-> a.aw]

SelfAttnSublayer(xs) ==
    LET _xs == Apply("norm1", xs)
        a   == MultiheadAttention("self_attn", _xs, _xs, _xs)
    IN  [out |-> Add(Apply("dropout1", a.out), xs), aw |-> a.aw]

\* _ys = norm2(ys); _ys, aw = src_attn(key=xs, value=xs, query=_ys); ys = dropout2(_ys) + ys
SrcAttnSublayer(ys, xs) ==
    LET _ys == Apply("norm2", ys)
        a   == MultiheadAttention("src_attn", xs, xs, _ys)
    IN  [out |-> Add(Apply("dropout2", a.out), ys), aw |-> a.aw]

\* _xs = norm_k(xs); _xs = feed_forward(_xs); xs = dropout_k(_xs) + xs
FeedForwardSublayer(xs, norm, dropout) ==
    Add(Apply(dropout, PositionwiseFeedForward(Apply(norm, xs))), xs)

(***************************************************************************)
(* The block instance and the caller's view of a call.                     *)
(***************************************************************************)
NoBlock ==
    [cls |-> "None", attn_type |-> "None", n_heads |-> 0, src_attention |-> FALSE,
     modules |-> {}, self_attn_filled |-> FALSE, src_attn_filled |-> FALSE]

NoRet ==
    [op |-> "None", cls |-> "None", attn_type |-> "None", src_attention |-> FALSE,
     raised |-> "None", out |-> NoTensor, self_aw |-> NoTensor, xy_aw |-> NoTensor,
     self_mask |-> <<>>, xy_mask |-> <<>>, reads |-> {},
     bs |-> 0, tmax |-> 0, lens |-> <<>>, cache |-> FALSE, xs_given |-> FALSE]

AttnTypes == {"scaled_dot", "average"}

\* sequence lengths of a padded batch of bs sequences whose longest has tmax frames
Lens(bs, tmax) ==
    {l \in [1..bs -> 0..tmax] : \E b \in 1..bs : l[b] = tmax}

(***************************************************************************)
(* TransformerEncoderBlock.__init__                                        *)
(***************************************************************************)
EncInit(attn_type, n_heads) ==
    /\ block = NoBlock
    /\ block' = [cls |-> "TransformerEncoderBlock", attn_type |-> attn_type,
                 n_heads |-> n_heads, src_attention |-> FALSE,
                 modules |-> {"self_attn", "norm1", "dropout1",
                              "feed_forward", "norm2", "dropout2"},
                 self_attn_filled |-> FALSE, src_attn_filled |-> FALSE]
    /\ ret' = [NoRet EXCEPT !.op = "__init__", !.cls = "TransformerEncoderBlock",
                            !.attn_type = attn_type]
    /\ UNCHANGED <<att, attRet, pe, peRet>>

(***************************************************************************)
(* TransformerEncoderBlock.forward(xs, xlens, cache)                       *)
(***************************************************************************)
EncForward(bs, xmax, xlens, cache) ==
    /\ block.cls = "TransformerEncoderBlock"
    /\ ret = NoRet
    /\ LET xx_mask == EncSelfMask(xlens, bs, xmax, block.n_heads)
           s1 == SelfAttnSublayer(Var("xs"))
           xs2 == FeedForwardSublayer(s1.out, "norm2", "dropout2")
       IN  /\ block' = [block EXCEPT !.self_attn_filled = TRUE]
           /\ ret' = [NoRet EXCEPT !.op = "forward", !.cls = block.cls,
                                   !.attn_type = block.attn_type,
                                   !.out = xs2, !.self_aw = s1.aw,
                                   !.xy_aw = NoTensor,
                                   !.self_mask = xx_mask,
                                   !.reads = {"xs", "xlens", "cache"},
                                   !.bs = bs, !.tmax = xmax, !.lens = xlens,
                                   !.cache = cache]
    /\ UNCHANGED <<att, attRet, pe, peRet>>

(***************************************************************************)
(* TransformerDecoderBlock.__init__                                        *)
(***************************************************************************)
DecInit(attn_type, n_heads, src_attention) ==
    /\ block = NoBlock
    /\ IF attn_type = "average"
       THEN \* raise NotImplementedError: no instance comes to exist
            /\ block' = NoBlock
            /\ ret' = [NoRet EXCEPT !.op = "__init__", !.cls = "TransformerDecoderBlock",
                                    !.attn_type = attn_type,
                                    !.src_attention = src_attention,
                                    !.raised = "NotImplementedError"]
       ELSE /\ block' = [cls |-> "TransformerDecoderBlock", attn_type |-> attn_type,
                         n_heads |-> n_heads, src_attention |-> src_attention,
                         modules |-> {"self_attn", "norm1", "dropout1"}
                                     \cup (IF src_attention
                                           THEN {"src_attn", "norm2", "dropout2"}
                                           ELSE {})
                                     \cup {"feed_forward", "norm3", "dropout3"},
                         self_attn_filled |-> FALSE, src_attn_filled |-> FALSE]
            /\ ret' = [NoRet EXCEPT !.op = "__init__", !.cls = "TransformerDecoderBlock",
                                    !.attn_type = attn_type,
                                    !.src_attention = src_attention]
    /\ UNCHANGED <<att, attRet, pe, peRet>>

\* "if self.src_attention:" in forward
UsesSrcAttentionAlways(blk) == TRUE

UsesSrcAttention(blk) == blk.src_attention

(***************************************************************************)
(* TransformerDecoderBlock.forward(ys, ylens, xs=None, xlens=None)         *)
(* xsGiven = FALSE is the call that leaves xs and xlens at None.           *)
(***************************************************************************)
DecForward(bs, ymax, ylens, xsGiven, xmax, xlens) ==
    /\ block.cls = "TransformerDecoderBlock"
    /\ ret = NoRet
    /\ LET yy_mask == DecSelfMask(ylens, bs, ymax, block.n_heads)
           base == [NoRet EXCEPT !.op = "forward", !.cls = block.cls,
                                 !.attn_type = block.attn_type,
                                 !.src_attention = block.src_attention,
                                 !.bs = bs, !.tmax = ymax, !.lens = ylens,
                                 !.xs_given = xsGiven]
           s1 == SelfAttnSublayer(Var("ys"))
           s2 == SrcAttnSublayer(s1.out, Var("xs"))
       IN  IF block.attn_type = "average"
           THEN /\ block' = block
                /\ ret' = [base EXCEPT !.raised = "NotImplementedError",
                                       !.reads = {"ys", "ylens"}]
           ELSE IF ~UsesSrcAttention(block)
           THEN /\ block' = [block EXCEPT !.self_attn_filled = TRUE]
                /\ ret' = [base EXCEPT
                             !.out = FeedForwardSublayer(s1.out, "norm3", "dropout3"),
                             !.self_aw = s1.aw, !.xy_aw = NoneValue,
                             !.self_mask = yy_mask,
                             !.reads = {"ys", "ylens"}]
           ELSE IF ~xsGiven
           THEN \* xs.size(1) on None
                /\ block' = [block EXCEPT !.self_attn_filled = TRUE]
                /\ ret' = [base EXCEPT !.raised = "AttributeError",
                                       !.reads = {"ys", "ylens", "xs"}]
           ELSE /\ block' = [block EXCEPT !.self_attn_filled = TRUE,
                                          !.src_attn_filled = TRUE]
                /\ ret' = [base EXCEPT
                             !.out = FeedForwardSublayer(s2.out, "norm3", "dropout3"),
                             !.self_aw = s1.aw, !.xy_aw = s2.aw,
                             !.self_mask = yy_mask,
                             !.xy_mask = DecSrcMask(xlens, ylens, bs, ymax, xmax,
                                                    block.n_heads),
                             !.reads = {"ys", "ylens", "xs", "xlens"}]
    /\ UNCHANGED <<att, attRet, pe, peRet>>

\* the caller drops what the last call gave it
Discard ==
    /\ ret # NoRet
    /\ ret' = NoRet
    /\ UNCHANGED <<block, att, attRet, pe, peRet>>

(***************************************************************************)
(* PositionalEncoding.  A Python value of pe_type is [t |-> type, v |->    *)
(* its text].                                                              *)
(***************************************************************************)
MaxPosLen == 2

PeTypes ==
    {[t |-> "NoneType", v |-> "None"], [t |-> "str", v |-> ""],
     [t |-> "bool", v |-> "False"], [t |-> "bool", v |-> "True"],
     [t |-> "str", v |-> "add"], [t |-> "str", v |-> "concat"],
     [t |-> "str", v |-> "1dconv"]}

DModels == {2, 3, 4}

\* Python's truth value of pe_type: "if pe_type:", "if not self.pe_type:"
Truthy(p) ==
    CASE p.t = "NoneType" -> FALSE
      [] p.t = "bool" -> p.v = "True"
      [] OTHER -> p.v # ""

IsStr(p, text) == p.t = "str" /\ p.v = text

NoPE ==
    [exists |-> FALSE, d_model |-> 0, pe_type |-> [t |-> "NoneType", v |-> "None"],
     pe_shape |-> <<>>, has_dropout |-> FALSE]

NoPERet ==
    [op |-> "None", raised |-> "None", raised_arg |-> "None", out |-> NoTensor,
     shape |-> <<>>, bs |-> 0, tlen |-> 0, d_model |-> 0,
     pe_type |-> [t |-> "NoneType", v |-> "None"], max_len |-> 0]

\* pe[:, 0::2] = sin(position * div_term); pe[:, 1::2] = cos(position * div_term):
\* div_term has ceil(d_model / 2) entries, pe[:, 1::2] has floor(d_model / 2) columns
PeTableShape(d_model, max_len) ==
    LET half_up == (d_model + 1) \div 2
        half_down == d_model \div 2
    IN  IF Expand(<<max_len, half_up>>, <<max_len, half_down>>) = Bad
        THEN Bad
        ELSE <<1, max_len, d_model>>

(***************************************************************************)
(* PositionalEncoding.__init__(d_model, dropout, pe_type, max_len)         *)
(***************************************************************************)
PEInit(d_model, pe_type, max_len) ==
    /\ pe = NoPE
    /\ LET base == [NoPERet EXCEPT !.op = "__init__", !.d_model = d_model,
                                   !.pe_type = pe_type, !.max_len = max_len]
       IN  IF ~Truthy(pe_type)
           THEN /\ pe' = [NoPE EXCEPT !.exists = TRUE, !.d_model = d_model,
                                      !.pe_type = pe_type]
                /\ peRet' = base
           ELSE IF PeTableShape(d_model, max_len) = Bad
           THEN /\ pe' = NoPE
                /\ peRet' = [base EXCEPT !.raised = "RuntimeError"]
           ELSE /\ pe' = [exists |-> TRUE, d_model |-> d_model, pe_type |-> pe_type,
                          pe_shape |-> PeTableShape(d_model, max_len),
                          has_dropout |-> TRUE]
                /\ peRet' = base
    /\ UNCHANGED <<block, ret, att, attRet>>

\* xs = xs * math.sqrt(self.d_model)
PEScale(x) == x \o <<"sqrt(d_model)", "*">>

\* the positional term pe[:, :xs.size(1)]
PETerm == <<"pe[:,:T]">>

(***************************************************************************)
(* PositionalEncoding.forward(xs), xs of shape [bs, tlen, d_model]         *)
(***************************************************************************)
PEForward(bs, tlen) ==
    /\ pe.exists
    /\ peRet = NoPERet
    /\ LET shape == <<bs, tlen, pe.d_model>>
           xs == PEScale(Var("xs"))
           base == [NoPERet EXCEPT !.op = "forward", !.bs = bs, !.tlen = tlen,
                                   !.d_model = pe.d_model, !.pe_type = pe.pe_type,
                                   !.max_len = IF pe.pe_shape = <<>> THEN 0
                                               ELSE pe.pe_shape[2]]
           slice == SliceTime(pe.pe_shape, tlen)
           added == Broadcast(shape, slice)
           catted == Cat(shape, slice, 3)
       IN  peRet' =
             IF ~Truthy(pe.pe_type)
             THEN [base EXCEPT !.out = xs, !.shape = shape]
             ELSE IF IsStr(pe.pe_type, "add")
             THEN IF added = Bad
                  THEN [base EXCEPT !.raised = "RuntimeError"]
                  ELSE [base EXCEPT !.out = Apply("dropout", Add(xs, PETerm)),
                                    !.shape = added]
             ELSE IF IsStr(pe.pe_type, "concat")
             THEN IF catted = Bad
                  THEN [base EXCEPT !.raised = "RuntimeError"]
                  ELSE [base EXCEPT !.out = Apply("dropout", xs \o PETerm \o <<"cat">>),
                                    !.shape = catted]
             ELSE [base EXCEPT !.raised = "NotImplementedError",
                               !.raised_arg = pe.pe_type.v]
    /\ UNCHANGED <<block, ret, att, attRet, pe>>

PEDiscard ==
    /\ peRet # NoPERet
    /\ peRet' = NoPERet
    /\ UNCHANGED <<block, ret, att, attRet, pe>>

(***************************************************************************)
(* AttentionMechanism.                                                     *)
(*                                                                         *)
(* An element of the energies is "fin" (a finite float), "-inf", "+inf" or *)
(* "nan"; an attention weight is "0", "+" (positive), "1", "nan", or       *)
(* "0|+" for an element that dropout either zeroes or keeps.  Encoder and  *)
(* decoder outputs and the learned weights hold finite floats.             *)
(***************************************************************************)
MaxKernel == 2
EncUnits == 3
DecUnits == 2
AttnDim == 4
ConvOutChannels == 10
ConvKernelDefault == 100

AttAttnTypes ==
    {"add", "location", "dot", "luong_dot", "luong_general", "luong_concat", "content"}

\* sharpening_factor: only its sign decides what becomes of an infinite energy
SharpFactors == {-1, 0, 1}

NoAtt ==
    [exists |-> FALSE, attn_type |-> "None", sharpening_factor |-> 1,
     sigmoid_smoothing |-> FALSE, has_dropout |-> FALSE, modules |-> {},
     conv_kernel |-> 0, conv_padding |-> 0,
     enc_out_a |-> <<>>, mask |-> <<>>, mask_shape |-> <<>>]

NoAttRet ==
    [op |-> "None", attn_type |-> "None", raised |-> "None",
     bs |-> 0, enc_time |-> 0, x_lens |-> <<>>,
     cached |-> <<>>, mask |-> <<>>, context |-> <<>>, aw_shape |-> <<>>,
     aw_step |-> <<>>]

\* kernel_size=(1, conv_kernel_size * 2 + 1)
ConvKernelWidthEven(k) == 2 * k

ConvKernelWidth(k) == 2 * k + 1

\* padding=(0, conv_kernel_size)
ConvPadding(k) == k

(***************************************************************************)
(* AttentionMechanism.__init__                                             *)
(***************************************************************************)
AttInit(attn_type, sharpening_factor, sigmoid_smoothing, dropout, conv_kernel_size) ==
    /\ att = NoAtt
    /\ IF attn_type \in {"luong_dot", "luong_general", "luong_concat"}
       THEN /\ att' = NoAtt
            /\ attRet' = [NoAttRet EXCEPT !.op = "__init__", !.attn_type = attn_type,
                                          !.raised = "NotImplementedError"]
       ELSE /\ att' = [exists |-> TRUE, attn_type |-> attn_type,
                       sharpening_factor |-> sharpening_factor,
                       sigmoid_smoothing |-> sigmoid_smoothing,
                       has_dropout |-> dropout,
                       modules |-> CASE attn_type = "add" -> {"w_enc", "w_dec", "v"}
                                     [] attn_type = "location" ->
                                          {"w_enc", "w_dec", "w_conv", "conv", "v"}
                                     [] attn_type = "dot" -> {"w_enc", "w_dec"}
                                     [] OTHER -> {},
                       conv_kernel |-> IF attn_type = "location"
                                       THEN ConvKernelWidth(conv_kernel_size) ELSE 0,
                       conv_padding |-> IF attn_type = "location"
                                        THEN ConvPadding(conv_kernel_size) ELSE 0,
                       enc_out_a |-> <<>>, mask |-> <<>>, mask_shape |-> <<>>]
            /\ attRet' = [NoAttRet EXCEPT !.op = "__init__", !.attn_type = attn_type]
    /\ UNCHANGED <<block, ret, pe, peRet>>

(***************************************************************************)
(* AttentionMechanism.reset                                                *)
(***************************************************************************)
AttReset ==
    /\ att.exists
    /\ att' = [att EXCEPT !.enc_out_a = <<>>, !.mask = <<>>, !.mask_shape = <<>>]
    /\ UNCHANGED <<block, ret, attRet, pe, peRet>>

\* self.mask = ones(bs, enc_time); if x_lens[b] < enc_time: self.mask[b, x_lens[b]:] = 0
AttMaskOffByOne(bs, enc_time, x_lens) ==
    [b \in 1..bs |-> [t \in 0..(enc_time - 1) |->
        IF x_lens[b] < enc_time /\ t > x_lens[b] THEN 0 ELSE 1]]

AttMask(bs, enc_time, x_lens) ==
    [b \in 1..bs |-> [t \in 0..(enc_time - 1) |->
        IF x_lens[b] < enc_time /\ t >= x_lens[b] THEN 0 ELSE 1]]

\* the shape of energy, by attention type
AttEnergyShape(a, enc_out_a, bs, enc_time) ==
    LET dec_out == <<bs, 1, DecUnits>>
        expanded == Expand(dec_out, <<bs, enc_time, DecUnits>>)
        aw_step == <<bs, enc_time>>
        conv_feat == TransposeLast(Squeeze(
                        Conv2d(View(aw_step, <<bs, 1, 1, enc_time>>), 1, ConvOutChannels,
                               1, a.conv_kernel, 0, a.conv_padding), 3))
    IN  CASE a.attn_type = "add" ->
               Squeeze(Linear(Broadcast(enc_out_a, Linear(expanded, DecUnits, AttnDim)),
                              AttnDim, 1), 3)
          [] a.attn_type = "location" ->
               Squeeze(Linear(Broadcast(Broadcast(enc_out_a,
                                                  Linear(expanded, DecUnits, AttnDim)),
                                        Linear(conv_feat, ConvOutChannels, AttnDim)),
                              AttnDim, 1), 3)
          [] a.attn_type = "dot" ->
               Squeeze(MatMul(enc_out_a,
                              TransposeLast(Linear(dec_out, DecUnits, AttnDim))), 3)
          [] OTHER -> Bad

\* energy.masked_fill_(self.mask == 0, -inf): the mask broadcast onto the energies
AttMaskedFill(mask, mask_shape, eshape) ==
    [b \in 1..eshape[1] |-> [t \in 0..(eshape[2] - 1) |->
        IF mask[IF mask_shape[1] = 1 THEN 1 ELSE b][IF mask_shape[2] = 1 THEN 0 ELSE t] = 0
        THEN "-inf" ELSE "fin"]]

\* energy * self.sharpening_factor, one element
AttScale(e, factor) ==
    CASE e = "fin" -> "fin"
      [] e = "nan" -> "nan"
      [] e = "-inf" -> IF factor > 0 THEN "-inf" ELSE IF factor = 0 THEN "nan" ELSE "+inf"
      [] e = "+inf" -> IF factor > 0 THEN "+inf" ELSE IF factor = 0 THEN "nan" ELSE "-inf"

\* F.sigmoid, one element
AttSigmoid(e) ==
    CASE e = "fin" -> "+"
      [] e = "-inf" -> "0"
      [] e = "+inf" -> "1"
      [] e = "nan" -> "nan"

\* F.softmax(row, dim=-1): exp(e - max) / sum
AttSoftmaxRow(row) ==
    IF \/ \E t \in DOMAIN row : row[t] \in {"nan", "+inf"}
       \/ \A t \in DOMAIN row : row[t] = "-inf"
    THEN [t \in DOMAIN row |-> "nan"]
    ELSE [t \in DOMAIN row |-> IF row[t] = "-inf" THEN "0" ELSE "+"]

\* nn.Dropout, one element: zeroed or scaled by 1 / (1 - p)
AttDropout(w) ==
    CASE w = "0" -> "0"
      [] w = "nan" -> "nan"
      [] OTHER -> "0|+"

\* "Compute attention weights"
AttWeights(a, energy) ==
    LET scaled == [b \in DOMAIN energy |-> [t \in DOMAIN energy[b] |->
                      AttScale(energy[b][t], a.sharpening_factor)]]
        aw == IF a.sigmoid_smoothing
              THEN [b \in DOMAIN scaled |-> [t \in DOMAIN scaled[b] |->
                       AttSigmoid(scaled[b][t])]]
              ELSE [b \in DOMAIN scaled |-> AttSoftmaxRow(scaled[b])]
    IN  IF a.has_dropout
        THEN [b \in DOMAIN aw |-> [t \in DOMAIN aw[b] |-> AttDropout(aw[b][t])]]
        ELSE aw

(***************************************************************************)
(* AttentionMechanism.forward(enc_out, x_lens, dec_out, aw_step) with      *)
(* enc_out [bs, enc_time, EncUnits], dec_out [bs, 1, DecUnits] and aw_step *)
(* None or [bs, enc_time]                                                  *)
(***************************************************************************)
AttForward(bs, enc_time, x_lens, awGiven) ==
    /\ att.exists
    /\ attRet = NoAttRet
    /\ LET enc_out == <<bs, enc_time, EncUnits>>
           base == [NoAttRet EXCEPT !.op = "forward", !.attn_type = att.attn_type,
                                    !.bs = bs, !.enc_time = enc_time,
                                    !.x_lens = x_lens,
                                    !.cached = att.enc_out_a]
       IN  IF att.enc_out_a = <<>> /\ "w_enc" \notin att.modules
           THEN /\ att' = att
                /\ attRet' = [base EXCEPT !.raised = "AttributeError"]
           ELSE LET enc_out_a == IF att.enc_out_a = <<>>
                                 THEN Linear(enc_out, EncUnits, AttnDim)
                                 ELSE att.enc_out_a
                    mask == IF att.mask_shape = <<>>
                            THEN AttMask(bs, enc_time, x_lens) ELSE att.mask
                    mask_shape == IF att.mask_shape = <<>>
                                  THEN <<bs, enc_time>> ELSE att.mask_shape
                    eshape == AttEnergyShape(att, enc_out_a, bs, enc_time)
                    filled == IF eshape = Bad THEN Bad ELSE Expand(mask_shape, eshape)
                    context == IF filled = Bad THEN Bad
                               ELSE MatMul(Unsqueeze1(eshape), enc_out)
                IN  /\ att' = [att EXCEPT !.enc_out_a = enc_out_a, !.mask = mask,
                                          !.mask_shape = mask_shape]
                    /\ attRet' =
                         IF context = Bad
                         THEN [base EXCEPT !.raised = "RuntimeError"]
                         ELSE [base EXCEPT
                                 !.mask = mask,
                                 !.context = context,
                                 !.aw_shape = eshape,
                                 !.aw_step = AttWeights(att,
                                                AttMaskedFill(mask, mask_shape, eshape))]
    /\ UNCHANGED <<block, ret, pe, peRet>>

AttDiscard ==
    /\ attRet # NoAttRet
    /\ attRet' = NoAttRet
    /\ UNCHANGED <<block, ret, att, pe, peRet>>

AttDelete ==
    /\ att # NoAtt
    /\ attRet = NoAttRet
    /\ att' = NoAtt
    /\ UNCHANGED <<block, ret, attRet, pe, peRet>>

\* the instance is dropped; another may be constructed
BlockDelete ==
    /\ block # NoBlock
    /\ ret = NoRet
    /\ block' = NoBlock
    /\ UNCHANGED <<ret, att, attRet, pe, peRet>>

PEDelete ==
    /\ pe # NoPE
    /\ peRet = NoPERet
    /\ pe' = NoPE
    /\ UNCHANGED <<block, ret, att, attRet, peRet>>

Init ==
    /\ block = NoBlock
    /\ ret = NoRet
    /\ att = NoAtt
    /\ attRet = NoAttRet
    /\ pe = NoPE
    /\ peRet = NoPERet

BlockNext ==
    \/ \E a \in AttnTypes, h \in 1..MaxHeads : EncInit(a, h)
    \/ \E a \in AttnTypes, h \in 1..MaxHeads, s \in BOOLEAN : DecInit(a, h, s)
    \/ \E bs \in 1..MaxBatch, xmax \in 1..MaxLen, c \in BOOLEAN :
         \E xlens \in Lens(bs, xmax) : EncForward(bs, xmax, xlens, c)
    \/ \E bs \in 1..MaxBatch, ymax \in 1..MaxLen :
         \E ylens \in Lens(bs, ymax) :
            \/ DecForward(bs, ymax, ylens, FALSE, 0, <<>>)
            \/ \E xmax \in 1..MaxLen : \E xlens \in Lens(bs, xmax) :
                 DecForward(bs, ymax, ylens, TRUE, xmax, xlens)
    \/ Discard
    \/ BlockDelete

SpecBlock == Init /\ [][BlockNext]_vars

PENext ==
    \/ \E d \in DModels, p \in PeTypes, m \in 1..MaxPosLen : PEInit(d, p, m)
    \/ \E bs \in 1..MaxBatch, t \in 1..MaxLen : PEForward(bs, t)
    \/ PEDiscard
    \/ PEDelete

\* x_lens of a batch: 0 (an empty sequence) up to beyond the encoder's frames
AttLens(bs, enc_time) == [1..bs -> 0..(enc_time + 1)]

\* aw_step is None or the previous weights; only location attention reads it
AwStepChoices == IF att.attn_type = "location" THEN BOOLEAN ELSE {FALSE}

AttNext ==
    \/ \E a \in AttAttnTypes, f \in SharpFactors, g \in BOOLEAN, d \in BOOLEAN :
         \/ a = "location" /\ \E k \in 0..MaxKernel : AttInit(a, f, g, d, k)
         \/ a # "location" /\ AttInit(a, f, g, d, ConvKernelDefault)
    \/ AttReset
    \/ \E bs \in 1..MaxBatch, t \in 1..MaxLen, w \in AwStepChoices :
         \* the first call after a reset computes the mask from x_lens
         \/ att.mask_shape = <<>>
              /\ \E x_lens \in AttLens(bs, t) : AttForward(bs, t, x_lens, w)
         \* a later call does not look at x_lens
         \/ att.mask_shape # <<>>
              /\ AttForward(bs, t, [b \in 1..bs |-> t], w)
    \/ AttDiscard
    \/ AttDelete

SpecAtt == Init /\ [][AttNext]_vars

Next == BlockNext \/ AttNext \/ PENext

\* the three classes share no state: SpecBlock, SpecAtt and SpecPE are the system
\* with one class at work
Spec == Init /\ [][Next]_vars

SpecPE == Init /\ [][PENext]_vars

(***************************************************************************)
(*                     Properties of the transformer blocks                *)
(***************************************************************************)
\* the last call was a TransformerDecoderBlock.forward that returned
DecReturned ==
    ret.op = "forward" /\ ret.cls = "TransformerDecoderBlock" /\ ret.raised = "None"

\* C1: the self-attention mask the decoder block passes to self_attn is 1 at
\* [b, h, i, j] exactly when j <= i and j < ylens[b], for every batch element, head,
\* query position i and key position j: no target position attends to a later or to
\* a padded position, and the mask is the same for all heads.
C1_CausalPadMask ==
    DecReturned =>
        /\ DOMAIN ret.self_mask = 1..ret.bs
        /\ \A b \in 1..ret.bs :
             /\ DOMAIN ret.self_mask[b] = 1..block.n_heads
             /\ \A h \in 1..block.n_heads :
                  /\ DOMAIN ret.self_mask[b][h] = 0..(ret.tmax - 1)
                  /\ \A i \in 0..(ret.tmax - 1) :
                       /\ DOMAIN ret.self_mask[b][h][i] = 0..(ret.tmax - 1)
                       /\ \A j \in 0..(ret.tmax - 1) :
                            (ret.self_mask[b][h][i][j] = 1)
                                <=> (j <= i /\ j < ret.lens[b])

\* C1, witness: a batch with a padded sequence, two heads, and a position that the
\* causal part allows and the padding part forbids
C1_Witness ==
    /\ DecReturned
    /\ block.n_heads >= 2
    /\ ret.tmax >= 2
    /\ \E b \in 1..ret.bs : \E i, j \in 0..(ret.tmax - 1) :
         /\ j <= i /\ j >= ret.lens[b] /\ ret.lens[b] >= 1
         /\ ret.self_mask[b][1][i][j] = 0
         /\ ret.self_mask[b][2][i][0] = 1

\* dropout1(self_attn(norm1(ys), norm1(ys), norm1(ys))) + ys, written out
C3_SelfOut ==
    LET n == <<"ys", "norm1">>
    IN  n \o n \o n \o <<"self_attn", "dropout1", "ys", "+">>

\* dropout3(feed_forward(norm3(x))) + x, written out
C3_FfnOf(x) ==
    x \o <<"norm3", "w_1", "relu", "ffn.dropout", "w_2", "dropout3">> \o x \o <<"+">>

\* C3: a decoder block built with src_attention=False has no src_attn, norm2,
\* dropout2; every forward(ys, ylens) of it succeeds with xs and xlens left at None,
\* reads neither, returns xy_aw = None and computes ys by the self-attention sublayer
\* followed by the feed-forward sublayer.  With src_attention=True a forward that
\* returns gives as xy_aw the weights src_attn returned, never None.
C3_SrcAttentionFlag ==
    /\ (block.cls = "TransformerDecoderBlock" /\ ~block.src_attention)
          => block.modules \cap {"src_attn", "norm2", "dropout2"} = {}
    /\ (ret.op = "forward" /\ ret.cls = "TransformerDecoderBlock"
          /\ ~ret.src_attention)
          => /\ ret.raised = "None"
             /\ ret.reads \cap {"xs", "xlens"} = {}
             /\ ret.xy_aw = NoneValue
             /\ ret.xy_mask = <<>>
             /\ ~block.src_attn_filled
             /\ ret.out = C3_FfnOf(C3_SelfOut)
    /\ (DecReturned /\ ret.src_attention)
          => /\ ret.xy_aw = <<"xs", "xs">> \o C3_SelfOut \o <<"norm2", "src_attn", "aw">>
             /\ ret.xy_aw # NoneValue

\* C3, witness: a block without source-target attention has returned from a call
\* that left xs and xlens at None
C3_Witness ==
    /\ DecReturned
    /\ ~ret.src_attention
    /\ ~ret.xs_given
    /\ ret.xy_aw = NoneValue
    /\ ret.bs >= 2

\* C5: a decoder block constructed with attn_type='average' is created, and its
\* forward returns (ys, yy_aw, xy_aw) without raising, as with 'scaled_dot'.
C5_AverageSupported ==
    /\ (ret.op = "__init__" /\ ret.cls = "TransformerDecoderBlock"
          /\ ret.attn_type = "average")
          => (ret.raised = "None" /\ block.cls = "TransformerDecoderBlock"
              /\ block.attn_type = "average")
    /\ (ret.op = "forward" /\ ret.cls = "TransformerDecoderBlock"
          /\ ret.attn_type = "average")
          => ret.raised = "None"

\* the three sublayers in pre-norm residual form, written out
C7_SelfAttn(in) ==
    in \o <<"norm1">> \o in \o <<"norm1">> \o in
       \o <<"norm1", "self_attn", "dropout1">> \o in \o <<"+">>

C7_SrcAttn(in) ==
    <<"xs", "xs">> \o in \o <<"norm2", "src_attn", "dropout2">> \o in \o <<"+">>

C7_Ffn(in, norm, dropout) ==
    in \o <<norm, "w_1", "relu", "ffn.dropout", "w_2", dropout>> \o in \o <<"+">>

\* C7: every sublayer of both blocks is out = in + dropout_k(sublayer_k(norm_k(in))),
\* the residual adding the un-normalized input and each sublayer fed by the one
\* before; the order is self-attention, feed-forward in the encoder block and
\* self-attention, source-target attention (only with src_attention), feed-forward
\* in the decoder block; in source-target attention only the query is normalized,
\* keys and values are the encoder outputs xs.
C7_PreNormResidual ==
    /\ (ret.op = "forward" /\ ret.cls = "TransformerEncoderBlock")
          => ret.out = C7_Ffn(C7_SelfAttn(<<"xs">>), "norm2", "dropout2")
    /\ (DecReturned /\ ~ret.src_attention)
          => ret.out = C7_Ffn(C7_SelfAttn(<<"ys">>), "norm3", "dropout3")
    /\ (DecReturned /\ ret.src_attention)
          => ret.out = C7_Ffn(C7_SrcAttn(C7_SelfAttn(<<"ys">>)), "norm3", "dropout3")

\* C7, witness: a decoder block has gone through all three sublayers
C7_Witness ==
    /\ DecReturned
    /\ ret.src_attention
    /\ ret.xy_aw # NoneValue
    /\ block.src_attn_filled
    /\ Len(ret.out) > 2 * Len(C7_SelfAttn(<<"ys">>))

(***************************************************************************)
(*                     Properties of AttentionMechanism                    *)
(***************************************************************************)
\* the last call was a forward of add, location or dot attention that found no
\* cached enc_out_a and mask: the first after a reset() or on a fresh instance
C2_FreshCall ==
    /\ attRet.op = "forward"
    /\ attRet.attn_type \in {"add", "location", "dot"}
    /\ attRet.cached = <<>>

\* every b with 1 <= x_lens[b] has weight 0 at every t >= x_lens[b] and a weight
\* that is a number at every other t; with x_lens[b] >= T nothing of b is masked
C2_MaskedWeights ==
    /\ attRet.raised = "None"
    /\ \A b \in 1..attRet.bs :
         attRet.x_lens[b] >= 1 =>
            /\ \A t \in 0..(attRet.enc_time - 1) :
                 /\ t >= attRet.x_lens[b] => attRet.aw_step[b][t] = "0"
                 /\ t < attRet.x_lens[b] => attRet.aw_step[b][t] \in {"+", "0|+"}
            /\ attRet.x_lens[b] >= attRet.enc_time =>
                 \A t \in 0..(attRet.enc_time - 1) : attRet.mask[b][t] = 1

\* C2 as stated: in a forward called right after reset() or on a fresh instance, for
\* attn_type add, location and dot, either sigmoid_smoothing setting, with or
\* without dropout (and whatever the sharpening_factor), every b with
\* 1 <= x_lens[b] has aw_step[b, t] = 0 for every t >= x_lens[b], so that the
\* context of b is a weighted sum of its first min(x_lens[b], T) frames only; with
\* x_lens[b] >= T no position of b is masked.
C2_PaddedFramesGetNoWeight == C2_FreshCall => C2_MaskedWeights

\* C2 as amended: the same, for an instance whose sharpening_factor is positive.
C2_PaddedFramesGetNoWeightPositiveFactor ==
    (C2_FreshCall /\ att.sharpening_factor > 0) => C2_MaskedWeights

\* C2, witness: sigmoid smoothing with dropout, one sequence padded after its first
\* frame and one declared longer than the encoder output
C2_Witness ==
    /\ C2_FreshCall
    /\ att.sharpening_factor > 0
    /\ att.sigmoid_smoothing
    /\ att.has_dropout
    /\ attRet.raised = "None"
    /\ attRet.enc_time >= 2
    /\ \E b \in 1..attRet.bs :
         /\ attRet.x_lens[b] = 1
         /\ attRet.aw_step[b][0] = "0|+"
         /\ attRet.aw_step[b][attRet.enc_time - 1] = "0"
    /\ \E b \in 1..attRet.bs :
         /\ attRet.x_lens[b] > attRet.enc_time
         /\ attRet.aw_step[b][attRet.enc_time - 1] = "0|+"

\* the last call was a forward of add, location or dot attention
C4_Call ==
    /\ attRet.op = "forward"
    /\ attRet.attn_type \in {"add", "location", "dot"}

\* it returned context [B, 1, enc_units] and aw_step [B, T]
C4_Shapes ==
    /\ attRet.raised = "None"
    /\ attRet.context = <<attRet.bs, 1, EncUnits>>
    /\ attRet.aw_shape = <<attRet.bs, attRet.enc_time>>
    /\ DOMAIN attRet.aw_step = 1..attRet.bs
    /\ \A b \in 1..attRet.bs : DOMAIN attRet.aw_step[b] = 0..(attRet.enc_time - 1)

C6_InScope ==
    /\ peRet.op = "forward"
    /\ peRet.d_model % 2 = 0
    /\ (Truthy(peRet.pe_type) => peRet.tlen <= peRet.max_len)

\* xs * sqrt(d_model), written out
C6_Scaled == <<"xs", "sqrt(d_model)", "*">>

\* the contract of forward, with that of 'concat' for the batch sizes given
C6_ForwardContract(concatBatches) ==
    C6_InScope =>
        /\ ~Truthy(peRet.pe_type) =>
              /\ peRet.raised = "None"
              /\ peRet.out = C6_Scaled
              /\ peRet.shape = <<peRet.bs, peRet.tlen, peRet.d_model>>
        /\ IsStr(peRet.pe_type, "add") =>
              /\ peRet.raised = "None"
              /\ peRet.out = C6_Scaled \o <<"pe[:,:T]", "+", "dropout">>
              /\ peRet.shape = <<peRet.bs, peRet.tlen, peRet.d_model>>
        /\ (IsStr(peRet.pe_type, "concat") /\ peRet.bs \in concatBatches) =>
              /\ peRet.raised = "None"
              /\ peRet.out = C6_Scaled \o <<"pe[:,:T]", "cat", "dropout">>
              /\ peRet.shape = <<peRet.bs, peRet.tlen, 2 * peRet.d_model>>
        /\ (Truthy(peRet.pe_type) /\ ~IsStr(peRet.pe_type, "add")
               /\ ~IsStr(peRet.pe_type, "concat")) =>
              /\ peRet.raised = "NotImplementedError"
              /\ peRet.raised_arg = peRet.pe_type.v

\* C6: PositionalEncoding.forward on xs [B, T, d_model] with T <= max_len and even
\* d_model: a falsy pe_type gives xs * sqrt(d_model), no positional term, no
\* dropout; 'add' gives dropout(xs * sqrt(d_model) + pe[:, :T]) of shape
\* [B, T, d_model]; 'concat' gives dropout of the concatenation, of shape
\* [B, T, 2 * d_model]; any other truthy pe_type constructs and raises
\* NotImplementedError(pe_type) in every forward.  The scaling comes before the
\* positional term, and pe is never scaled.
C6_PositionalEncoding == C6_ForwardContract(1..(MaxBatch + 1))

\* what the code does keep of C6: all of it but 'concat' on a batch of two or more
C6_ExceptConcatBatches == C6_ForwardContract({1})

====
